---- MODULE Spec2Model ----
(***************************************************************************)
(* A model of the simbad catalogue importer (src/src/lib.rs): the          *)
(* equatorial coordinate type, the sexagesimal coordinate parser, the      *)
(* spherical/Cartesian transform and the import loop.                      *)
(*                                                                         *)
(* Numbers.  An f64 is a record [k, v]: k = "fin" with v the value in      *)
(* fixed point, k = "nan", or k = "inf" with v the sign.  Angles are held  *)
(* in units of a tenth of an arcsecond, whichever unit the code names      *)
(* (radians or degrees): pi is 180 * 36000 units.  Distances are held in   *)
(* hundredths, the components of a vector in the unit of the distance.     *)
(* Sines and cosines are tabulated to four decimals at whole degrees.      *)
(***************************************************************************)
EXTENDS Integers, Sequences, FiniteSets, TLC

VARIABLES pc, arg, res,
          rows, records, idx, stars, result, pos, coords

pureVars == <<pc, arg, res>>
importVars == <<rows, records, idx, stars, result, pos, coords>>
vars == <<pc, arg, res, rows, records, idx, stars, result, pos, coords>>

(***************************************************************************)
(* Option<T>: None is the empty sequence, Some(x) the sequence <<x>>.      *)
(***************************************************************************)
None == <<>>
Some(x) == <<x>>
IsSome(o) == Len(o) = 1
Unwrap(o) == o[1]

(***************************************************************************)
(* f64 in fixed point.                                                     *)
(***************************************************************************)
Fin(n) == [k |-> "fin", v |-> n]
NaN == [k |-> "nan", v |-> 0]
Inf(s) == [k |-> "inf", v |-> s]
IsFinite(x) == x.k = "fin"
IsNaN(x) == x.k = "nan"

Abs(n) == IF n < 0 THEN -n ELSE n
Sign(n) == IF n < 0 THEN -1 ELSE 1

\* Integer division rounding towards zero.
TDiv(a, b) == Sign(a) * Sign(b) * (Abs(a) \div Abs(b))

\* The remainder of f64 `%`: it takes the sign of the dividend.
Rem(a, b) == Sign(a) * (Abs(a) % Abs(b))

\* x < y on f64 values, neither of them NaN.
FLess(x, y) ==
    CASE x.k = "inf" -> x.v < 0 /\ ~(y.k = "inf" /\ y.v < 0)
      [] y.k = "inf" -> y.v > 0
      [] OTHER -> x.v < y.v

\* f64::max and f64::min: a NaN operand is ignored.
FMax(x, y) ==
    IF IsNaN(x) THEN y ELSE IF IsNaN(y) THEN x ELSE IF FLess(x, y) THEN y ELSE x

FMin(x, y) ==
    IF IsNaN(x) THEN y ELSE IF IsNaN(y) THEN x ELSE IF FLess(y, x) THEN y ELSE x

\* x % m for a finite m > 0.
FRem(x, m) == IF IsFinite(x) THEN Fin(Rem(x.v, m)) ELSE NaN

FAdd(x, y) ==
    CASE IsNaN(x) \/ IsNaN(y) -> NaN
      [] x.k = "inf" /\ y.k = "inf" -> IF x.v = y.v THEN x ELSE NaN
      [] x.k = "inf" -> x
      [] y.k = "inf" -> y
      [] OTHER -> Fin(x.v + y.v)

\* x / n for a count n >= 0 (usize as f64).
FDivCount(x, n) ==
    CASE IsNaN(x) -> NaN
      [] x.k = "inf" -> x
      [] n = 0 -> IF x.v = 0 THEN NaN ELSE Inf(Sign(x.v))
      [] OTHER -> Fin(TDiv(x.v, n))

(***************************************************************************)
(* Angles and trigonometry.                                                *)
(***************************************************************************)
UnitsPerDegree == 3600 * 10
Pi == 180 * UnitsPerDegree
TwoPi == 2 * Pi
HalfPi == Pi \div 2
TrigScale == 10 * 1000

\* f64::to_radians, f64::to_degrees: degrees and radians share the
\* fixed-point unit, so the change of unit leaves the representation alone.
ToRadians(x) == x

SinTable ==
    <<0, 175, 349, 523, 698, 872, 1045, 1219, 1392, 1564, 1736, 1908, 2079,
      2250, 2419, 2588, 2756, 2924, 3090, 3256, 3420, 3584, 3746, 3907, 4067,
      4226, 4384, 4540, 4695, 4848, 5000, 5150, 5299, 5446, 5592, 5736, 5878,
      6018, 6157, 6293, 6428, 6561, 6691, 6820, 6947, 7071, 7193, 7314, 7431,
      7547, 7660, 7771, 7880, 7986, 8090, 8192, 8290, 8387, 8480, 8572, 8660,
      8746, 8829, 8910, 8988, 9063, 9135, 9205, 9272, 9336, 9397, 9455, 9511,
      9563, 9613, 9659, 9703, 9744, 9781, 9816, 9848, 9877, 9903, 9925, 9945,
      9962, 9976, 9986, 9994, 9998, 10000>>

\* The whole degree nearest to an angle, reduced to 0..359.
NearestDegree(a) ==
    LET r == ((a % TwoPi) + (UnitsPerDegree \div 2)) \div UnitsPerDegree
    IN r % 360

SinDeg(d) ==
    CASE d <= 90 -> SinTable[d + 1]
      [] d <= 180 -> SinTable[180 - d + 1]
      [] d <= 270 -> -SinTable[d - 180 + 1]
      [] OTHER -> -SinTable[360 - d + 1]

CosDeg(d) == SinDeg((d + 90) % 360)

\* f64::sin and f64::cos, scaled by TrigScale.
FSin(x) == IF IsFinite(x) THEN Fin(SinDeg(NearestDegree(x.v))) ELSE NaN
FCos(x) == IF IsFinite(x) THEN Fin(CosDeg(NearestDegree(x.v))) ELSE NaN

\* x * t for t a sine or cosine (scaled by TrigScale).
FMulTrig(x, t) ==
    CASE IsNaN(x) \/ IsNaN(t) -> NaN
      [] x.k = "inf" -> IF t.v = 0 THEN NaN ELSE Inf(x.v * Sign(t.v))
      [] OTHER -> Fin(TDiv(x.v * t.v, TrigScale))

(***************************************************************************)
(* EquatorialCoordinate::new (lib.rs 74-81).                               *)
(***************************************************************************)
NewWrapsDeclination(right_ascension, declination) ==
    [right_ascension |-> FRem(right_ascension, TwoPi),
     declination |-> IF IsFinite(declination)
                     THEN Fin(((declination.v + HalfPi) % Pi) - HalfPi)
                     ELSE declination]

New(right_ascension, declination) ==
    [right_ascension |-> FRem(right_ascension, TwoPi),
     declination |-> FMin(FMax(declination, ToRadians(Fin(-(90 * UnitsPerDegree)))),
                          ToRadians(Fin(90 * UnitsPerDegree)))]

(***************************************************************************)
(* StellarPosition and its conversions (lib.rs 22-64).                     *)
(***************************************************************************)
\* StellarPosition::new (lib.rs 23-28).
NewStellarPosition(distance, right_ascension, declination) ==
    [distance |-> distance, coord |-> New(right_ascension, declination)]

\* impl Into<DVec3> for StellarPosition (lib.rs 37-44).
Into(self) ==
    LET adj == FMulTrig(self.distance, FCos(self.coord.declination))
        opp == FMulTrig(self.distance, FSin(self.coord.declination))
    IN [x |-> FMulTrig(adj, FCos(self.coord.right_ascension)),
        y |-> FMulTrig(adj, FSin(self.coord.right_ascension)),
        z |-> opp]

RECURSIVE SqrtSearch(_, _, _)
SqrtSearch(n, lo, hi) ==
    IF lo >= hi THEN lo
    ELSE LET mid == (lo + hi + 1) \div 2
         IN IF mid * mid <= n THEN SqrtSearch(n, mid, hi)
            ELSE SqrtSearch(n, lo, mid - 1)

\* f64::sqrt to the fixed-point unit, for 0 <= n < 2^31.
Sqrt(n) == SqrtSearch(n, 0, 46340)

\* DVec3::length and DVec2::length of finite components.
Length3(x, y, z) == Sqrt(x * x + y * y + z * z)
Length2(x, y) == Sqrt(x * x + y * y)

\* f64::acos of the quotient num/den (0 <= num <= den, den > 0), to the
\* nearest whole degree.
Acos(num, den) ==
    LET err(a) == Abs(num * TrigScale - den * CosDeg(a))
    IN UnitsPerDegree * (CHOOSE a \in 0..90 : \A b \in 0..90 : err(a) <= err(b))

\* f64::atan2(y, x) for y >= 0 and x >= 0, to the nearest whole degree;
\* atan2(0, 0) is 0.
Atan2(y, x) ==
    LET err(a) == Abs(y * CosDeg(a) - x * SinDeg(a))
    IN IF x = 0 /\ y = 0 THEN 0
       ELSE UnitsPerDegree * (CHOOSE a \in 0..90 : \A b \in 0..90 : err(a) <= err(b))

\* f64::signum of a finite value: 1.0 for +0.0 and above, else -1.0.
Signum(z) == IF z >= 0 THEN 1 ELSE -1

\* lib.rs 55: the quadrant adjustment of the right ascension.
Quadrant(x, y, ra) ==
    IF x >= 0 /\ y >= 0 THEN ra
    ELSE IF x >= 0 /\ y <= 0 THEN Pi - ra
    ELSE IF x <= 0 /\ y <= 0 THEN Pi + ra
    ELSE TwoPi - ra

\* impl From<DVec3> for StellarPosition (lib.rs 46-64), of a finite vector.
From(value) ==
    LET hyp == Length3(value.x.v, value.y.v, value.z.v)
        adj == Length2(value.x.v, value.y.v)
        dec == IF hyp # 0 THEN Acos(adj, hyp) * Signum(value.z.v) ELSE 0
        ra == Atan2(Abs(value.y.v), Abs(value.x.v))
    IN [distance |-> Fin(hyp),
        coord |-> [right_ascension |-> Fin(Quadrant(value.x.v, value.y.v, ra)),
                   declination |-> Fin(dec)]]

(***************************************************************************)
(* Strings.  A str is a sequence of characters, a character a string       *)
(* naming it; the characters outside ASCII are named by their code point   *)
(* and take more than one byte in UTF-8.                                   *)
(***************************************************************************)
Digits == <<"0", "1", "2", "3", "4", "5", "6", "7", "8", "9">>
IsDigit(c) == \E i \in 1..10 : Digits[i] = c
DigitValue(c) == (CHOOSE i \in 1..10 : Digits[i] = c) - 1
IsWhitespace(c) == c \in {" ", "\t"}

\* char::len_utf8.
LenUtf8(c) ==
    CASE c = "U+00E9" -> 2
      [] c = "U+2212" -> 3
      [] OTHER -> 1

RECURSIVE ByteLen(_)
ByteLen(s) == IF s = <<>> THEN 0 ELSE LenUtf8(Head(s)) + ByteLen(Tail(s))

\* str::is_char_boundary.
IsCharBoundary(s, i) ==
    \E n \in 0..Len(s) : ByteLen(SubSeq(s, 1, n)) = i

\* The characters of s from byte offset i on, and before it; i is a boundary.
CharsFrom(s, i) ==
    LET n == CHOOSE m \in 0..Len(s) : ByteLen(SubSeq(s, 1, m)) = i
    IN SubSeq(s, n + 1, Len(s))

CharsTo(s, i) ==
    LET n == CHOOSE m \in 0..Len(s) : ByteLen(SubSeq(s, 1, m)) = i
    IN SubSeq(s, 1, n)

\* str::split_whitespace: the maximal runs of non-whitespace characters.
RECURSIVE SplitFrom(_, _, _)
SplitFrom(s, cur, out) ==
    IF s = <<>> THEN (IF cur = <<>> THEN out ELSE Append(out, cur))
    ELSE IF IsWhitespace(Head(s))
         THEN SplitFrom(Tail(s), <<>>, IF cur = <<>> THEN out ELSE Append(out, cur))
         ELSE SplitFrom(Tail(s), Append(cur, Head(s)), out)

SplitWhitespace(s) == SplitFrom(s, <<>>, <<>>)

AllDigits(s) == s # <<>> /\ \A i \in 1..Len(s) : IsDigit(s[i])

\* The value of a digit string, or limit + 1 once it exceeds limit.
RECURSIVE DigitsValue(_, _, _)
DigitsValue(s, acc, limit) ==
    IF s = <<>> THEN acc
    ELSE LET next == acc * 10 + DigitValue(Head(s))
         IN IF next > limit THEN limit + 1 ELSE DigitsValue(Tail(s), next, limit)

\* str::parse::<u8>: an optional '+', then digits, at most 255.
ParseU8(s) ==
    LET body == IF s # <<>> /\ Head(s) = "+" THEN Tail(s) ELSE s
    IN IF AllDigits(body) /\ DigitsValue(body, 0, 255) <= 255
       THEN Some(DigitsValue(body, 0, 255)) ELSE None

\* str::parse::<i16>: an optional '+' or '-', then digits, in -32768..32767.
ParseI16(s) ==
    LET neg == s # <<>> /\ Head(s) = "-"
        body == IF s # <<>> /\ Head(s) \in {"+", "-"} THEN Tail(s) ELSE s
        limit == IF neg THEN 32768 ELSE 32767
    IN IF AllDigits(body) /\ DigitsValue(body, 0, limit) <= limit
       THEN Some(IF neg THEN -DigitsValue(body, 0, limit) ELSE DigitsValue(body, 0, limit))
       ELSE None

\* str::parse::<f64> of a decimal literal (the alphabet of the inputs spells
\* no exponent, "inf" or "nan"): an optional sign, digits with at most one
\* '.', at least one digit.  The value is in tenths; digits past the first
\* decimal are below the fixed point's resolution, and the integer part of
\* every input stays below 100000.
ParseF64(s) ==
    LET neg == s # <<>> /\ Head(s) = "-"
        body == IF s # <<>> /\ Head(s) \in {"+", "-"} THEN Tail(s) ELSE s
        dots == {i \in 1..Len(body) : body[i] = "."}
        dot == IF dots = {} THEN Len(body) + 1 ELSE CHOOSE i \in dots : TRUE
        int == SubSeq(body, 1, dot - 1)
        frac == SubSeq(body, dot + 1, Len(body))
        ok == /\ Cardinality(dots) <= 1
              /\ \A i \in 1..Len(int) : IsDigit(int[i])
              /\ \A i \in 1..Len(frac) : IsDigit(frac[i])
              /\ Len(int) + Len(frac) >= 1
        mag == DigitsValue(int, 0, 100000) * 10
               + (IF frac = <<>> THEN 0 ELSE DigitValue(frac[1]))
    IN IF ok THEN Some(Fin(IF neg THEN -mag ELSE mag)) ELSE None

(***************************************************************************)
(* Degree and HourAngle (lib.rs 88-140).  Seconds and arcseconds are f64   *)
(* in tenths.                                                              *)
(***************************************************************************)
\* Degree::new (lib.rs 97-103).
NewDegree(base, arc_mins, arc_secs) ==
    [base |-> base, arc_mins |-> arc_mins, arc_secs |-> arc_secs]

\* Degree::to_f64 (lib.rs 105-107): decimal degrees, in angle units.
DegreeToF64(self) ==
    FAdd(Fin(self.base * UnitsPerDegree + self.arc_mins * (UnitsPerDegree \div 60)),
         FDivCount(Fin(self.arc_secs.v * (UnitsPerDegree \div 10)), 3600))

\* HourAngle::new (lib.rs 118-124).
NewHourAngle(hours, minutes, seconds) ==
    [hours |-> hours, minutes |-> minutes, seconds |-> seconds]

\* HourAngle::to_sec (lib.rs 125-127): seconds of time, in tenths.
ToSec(self) == FAdd(Fin((self.hours * 3600 + self.minutes * 60) * 10), self.seconds)

\* HourAngle::to_radians (lib.rs 133-135): to_sec * PI / 43200.
HourAngleToRadians(self) ==
    LET sec == ToSec(self)
    IN IF IsFinite(sec) THEN Fin(TDiv(sec.v * (Pi \div 43200), 10)) ELSE sec

\* f64 multiplication by the sign factor -1. or 1.
FMulSign(x, sign) == IF x.k = "nan" THEN x ELSE [x EXCEPT !.v = sign * x.v]

(***************************************************************************)
(* parse_coord (lib.rs 236-245).  The outcome is Some(coordinate), None,   *)
(* or the panic of a str slice off a character boundary.                   *)
(***************************************************************************)
Returned(o) == [k |-> "returned", value |-> o]
Panicked == [k |-> "panicked", value |-> None]

parse_coord(input) ==
    LET splits == SplitWhitespace(input)
        hours == ParseU8(splits[1])
        minutes == ParseU8(splits[2])
        seconds == ParseF64(splits[3])
        base == ParseI16(CharsFrom(splits[4], 1))
        arc_mins == ParseU8(splits[5])
        arc_secs == ParseF64(splits[6])
        ra == HourAngleToRadians(NewHourAngle(Unwrap(hours), Unwrap(minutes),
                                              Unwrap(seconds)))
        dec == DegreeToF64(NewDegree(Unwrap(base), Unwrap(arc_mins), Unwrap(arc_secs)))
        sign == IF CharsTo(splits[4], 1) = <<"-">> THEN -1 ELSE 1
    IN IF Len(splits) < 6 THEN Returned(None)
       ELSE IF hours = None \/ minutes = None \/ seconds = None THEN Returned(None)
       ELSE IF ~IsCharBoundary(splits[4], 1) THEN Panicked
       ELSE IF base = None \/ arc_mins = None \/ arc_secs = None THEN Returned(None)
       ELSE Returned(Some(New(ra, ToRadians(FMulSign(dec, sign)))))

(***************************************************************************)
(* average_coord (lib.rs 254-258).                                         *)
(***************************************************************************)
RECURSIVE SumRa(_)
SumRa(cs) == IF cs = <<>> THEN Fin(0) ELSE FAdd(Head(cs).right_ascension, SumRa(Tail(cs)))

RECURSIVE SumDec(_)
SumDec(cs) == IF cs = <<>> THEN Fin(0) ELSE FAdd(Head(cs).declination, SumDec(Tail(cs)))

average_coord(cs) ==
    New(FDivCount(SumRa(cs), Len(cs)), FDivCount(SumDec(cs), Len(cs)))

(***************************************************************************)
(* import_records and import (lib.rs 195-235).  A row of the file is       *)
(* [ok, record]: ok says whether the row deserializes into a Record.  A    *)
(* Record keeps the fields import reads.                                   *)
(***************************************************************************)
\* import_records (lib.rs 197-203): the rows that deserialize, in order.
RECURSIVE import_records(_)
import_records(rs) ==
    IF rs = <<>> THEN <<>>
    ELSE IF Head(rs).ok THEN <<Head(rs).record>> \o import_records(Tail(rs))
    ELSE import_records(Tail(rs))

\* str::ends_with.
EndsWith(s, suffix) ==
    Len(s) >= Len(suffix) /\ SubSeq(s, Len(s) - Len(suffix) + 1, Len(s)) = suffix

\* lib.rs 211: 1./(plx/1000.)*3.26, in hundredths, for plx in whole mas.
Distance(plx) ==
    CASE IsNaN(plx) -> NaN
      [] plx.k = "inf" -> Fin(0)
      [] plx.v = 0 -> Inf(1)
      [] OTHER -> Fin(TDiv(326 * 1000, plx.v))

\* The outcomes of one pass through the loop body.
Skipped(p, cs) == [k |-> "continue", pos |-> p, coords |-> cs, star |-> None, err |-> "none"]
Failed(e) == [k |-> "return", pos |-> None, coords |-> None, star |-> None, err |-> e]
Crashed == [k |-> "panic", pos |-> None, coords |-> None, star |-> None, err |-> "none"]
Pushed(p, cs, st) == [k |-> "push", pos |-> p, coords |-> cs, star |-> Some(st), err |-> "none"]

\* Assemble without the filter on the identifier's suffix.
AssembleKeepsCompanions(record, p, cs) ==
    IF record.spec_type = None THEN Skipped(Some(p), Some(cs))
    ELSE Pushed(Some(p), Some(cs),
                [id |-> record.id,
                 pos |-> Into(p),
                 name |-> IF IsSome(record.pretty_name)
                          THEN Unwrap(record.pretty_name) ELSE <<>>,
                 class |-> Unwrap(record.spec_type),
                 constellation |-> <<"?">>])

\* lib.rs 221-232: the two filters and the star, given the position.
Assemble(record, p, cs) ==
    IF record.spec_type = None THEN Skipped(Some(p), Some(cs))
    ELSE IF EndsWith(record.identifier, <<"B">>) THEN Skipped(Some(p), Some(cs))
    ELSE Pushed(Some(p), Some(cs),
                [id |-> record.id,
                 pos |-> Into(p),
                 name |-> IF IsSome(record.pretty_name)
                          THEN Unwrap(record.pretty_name) ELSE <<>>,
                 class |-> Unwrap(record.spec_type),
                 constellation |-> <<"?">>])

\* lib.rs 220: the position at the averaged coordinate.
Locate(record, dist, cs, coord) ==
    Assemble(record, NewStellarPosition(dist, coord.right_ascension, coord.declination), cs)

\* lib.rs 216-217: the coordinates that parsed, and their average.
Average(record, dist, parsed) ==
    Locate(record, dist, parsed, average_coord(parsed))

\* Iterator::filter_map(|x| x) over Option values.
RECURSIVE FilterMap(_)
FilterMap(os) ==
    IF os = <<>> THEN <<>>
    ELSE IF IsSome(Head(os)) THEN <<Unwrap(Head(os))>> \o FilterMap(Tail(os))
    ELSE FilterMap(Tail(os))

\* lib.rs 215-216: the third column, then the readings that parsed.
ThirdCoord(record, dist, coord1, coord2, coord3) ==
    IF coord3.k = "panicked" THEN Crashed
    ELSE Average(record, dist, FilterMap(<<coord1.value, coord2.value, coord3.value>>))

\* lib.rs 214-215: the second column.
SecondCoord(record, dist, coord1, coord2) ==
    IF coord2.k = "panicked" THEN Crashed
    ELSE IF record.coord3 = None THEN Failed("CoordNotFound")
    ELSE ThirdCoord(record, dist, coord1, coord2, parse_coord(Unwrap(record.coord3)))

\* lib.rs 213-214: the first column.
FirstCoord(record, dist, coord1) ==
    IF coord1.k = "panicked" THEN Crashed
    ELSE IF record.coord2 = None THEN Failed("CoordNotFound")
    ELSE SecondCoord(record, dist, coord1, parse_coord(Unwrap(record.coord2)))

\* lib.rs 212-213: the distance made finite, then the columns.
Columns(record, d) ==
    IF record.coord1 = None THEN Failed("CoordNotFound")
    ELSE FirstCoord(record, IF IsFinite(d) THEN d ELSE Fin(0),
                    parse_coord(Unwrap(record.coord1)))

\* The loop body without the skip of a record that has no parallax.
ImportRecordWithoutSkip(record) ==
    IF record.plx = None THEN Failed("Unspecified")
    ELSE Columns(record, Distance(Unwrap(record.plx)))

\* The loop body of import (lib.rs 210-232) on one record.
ImportRecord(record) ==
    IF record.plx = None THEN Skipped(None, None)
    ELSE IF record.plx = None THEN Failed("Unspecified")
    ELSE Columns(record, Distance(Unwrap(record.plx)))

(***************************************************************************)
(* The inputs.                                                             *)
(***************************************************************************)
MaxRecords == 2

Deg(n) == n * UnitsPerDegree

\* Arguments of EquatorialCoordinate::new: right ascensions below, in and
\* above [0, 2 pi), declinations below, in and above [-pi/2, pi/2].
RaInputs ==
    {Fin(a) : a \in {-TwoPi - Deg(30), -TwoPi, -Deg(200), -Deg(1), 0, Deg(1),
                     Deg(90), Deg(359), TwoPi - 1, TwoPi, TwoPi + Deg(45),
                     2 * TwoPi + Deg(10)}}
DecInputs ==
    {Fin(a) : a \in {-Pi, -HalfPi - 1, -HalfPi, -Deg(45), 0, Deg(30), HalfPi,
                     HalfPi + 1, Deg(135), TwoPi}}

\* Stellar positions in the normalized ranges, away from the axes and the
\* poles: there the f64 result hangs on residues of sin and cos (cos(PI/2) is
\* 6.1e-17, not 0) that the fixed point does not hold.
TransformInputs ==
    {[distance |-> Fin(d), coord |-> [right_ascension |-> Fin(Deg(15 * a)),
                                      declination |-> Fin(Deg(15 * b))]] :
        d \in {5000, 12000, 30000},
        a \in (0..23) \ {6, 12, 18},
        b \in -5..5}

\* Tokens of the inputs of parse_coord, by position.
Tokens1 == {<<"0", "5">>, <<"+", "1", "2">>, <<"2", "x">>}
Tokens2 == {<<"3", "0">>, <<"-", "1">>}
Tokens3 == {<<"0", "0">>, <<"1", ".", "5">>, <<".">>}
Tokens4 ==
    {<<"-", "2", "3">>, <<"+", "2", "3">>, <<"2", "3">>, <<"-", "0">>, <<"5">>,
     <<"-">>, <<"-", "x">>, <<"U+00E9">>, <<"U+00E9", "3">>,
     <<"U+2212", "2", "3">>}
Tokens5 == {<<"1", "5">>, <<"3", "0", "0">>, <<"x">>}
Tokens6 == {<<"3", "0">>, <<"3", "0", ".", "5">>, <<"3", ".", ".", "0">>}

RECURSIVE Join(_)
Join(ts) ==
    IF ts = <<>> THEN <<>>
    ELSE IF Len(ts) = 1 THEN ts[1]
    ELSE ts[1] \o <<" ">> \o Join(Tail(ts))

\* The first n of up to seven tokens, joined by single spaces.
ParseInput(ts, n) == Join(SubSeq(ts \o <<<<"J", "2", "0", "0", "0">>>>, 1, n))

\* Coordinate columns of a record.
GoodCoord1 ==
    Join(<<<<"0", "5">>, <<"3", "0">>, <<"0", "0">>, <<"-", "2", "3">>,
           <<"1", "5">>, <<"3", "0">>>>)
GoodCoord2 ==
    Join(<<<<"0", "5">>, <<"3", "0">>, <<"0", "2">>, <<"-", "2", "3">>,
           <<"1", "5">>, <<"1", "0">>>>)
BadCoord == Join(<<<<"0", "5">>, <<"3", "0">>>>)
CrashCoord ==
    Join(<<<<"0", "5">>, <<"3", "0">>, <<"0", "0">>, <<"U+2212", "2", "3">>,
           <<"1", "5">>, <<"3", "0">>>>)

AllColumns == <<Some(GoodCoord1), Some(GoodCoord2), Some(GoodCoord1)>>
NoSecondColumn == <<Some(GoodCoord1), None, Some(GoodCoord2)>>

CoordColumns ==
    {AllColumns,
     NoSecondColumn,
     <<Some(GoodCoord1), Some(BadCoord), None>>,
     <<Some(BadCoord), Some(BadCoord), Some(BadCoord)>>,
     <<Some(CrashCoord), None, Some(GoodCoord1)>>,
     <<None, Some(CrashCoord), Some(GoodCoord1)>>}

Identifiers == {<<"H", "D", "1">>, <<"H", "D", "1", "B">>}
SpecTypes == {None, Some(<<"G", "2", "V">>)}
PrettyNames == {None, Some(<<"S", "u", "n">>)}
Parallaxes == {None, Some(Fin(-100)), Some(Fin(0)), Some(Fin(100))}

RowKind(i, c, p, t, n) ==
    [ok |-> TRUE, identifier |-> i, columns |-> c, plx |-> p, spec_type |-> t,
     pretty_name |-> n]

\* The rows of a file but for their number: every parallax with every choice
\* of columns, every filter with the columns all there and with one missing,
\* and a row that does not deserialize.
RowKinds ==
    {RowKind(<<"H", "D", "1">>, c, p, Some(<<"G", "2", "V">>), Some(<<"S", "u", "n">>)) :
        c \in CoordColumns, p \in Parallaxes}
    \cup {RowKind(i, c, Some(Fin(100)), t, n) :
            i \in Identifiers, c \in {AllColumns, NoSecondColumn}, t \in SpecTypes,
            n \in PrettyNames}
    \cup {[ok |-> FALSE]}

\* Row number n of the file.
Row(kind, n) ==
    IF kind.ok
    THEN [ok |-> TRUE,
          record |-> [id |-> n, identifier |-> kind.identifier,
                      coord1 |-> kind.columns[1], coord2 |-> kind.columns[2],
                      coord3 |-> kind.columns[3], plx |-> kind.plx,
                      spec_type |-> kind.spec_type, pretty_name |-> kind.pretty_name]]
    ELSE [ok |-> FALSE, record |-> None]

\* The file whose rows are of the kinds f[1], ..., f[len].
RECURSIVE File(_, _)
File(f, len) == IF len = 0 THEN <<>> ELSE Append(File(f, len - 1), Row(f[len], len))

(***************************************************************************)
(* The specifications.                                                     *)
(***************************************************************************)
NoResult == [k |-> "none", v |-> <<>>]
Ok(v) == [k |-> "Ok", v |-> v]
Err(e) == [k |-> "Err", v |-> e]
Panic == [k |-> "panic", v |-> <<>>]

PureIdle == arg = None /\ res = None
ImportIdle ==
    /\ rows = <<>> /\ records = <<>> /\ idx = 0 /\ stars = <<>>
    /\ result = NoResult /\ pos = None /\ coords = None

\* EquatorialCoordinate::new on one pair of arguments.
InitNew ==
    /\ pc = "start"
    /\ arg \in {[ra |-> a, dec |-> d] : a \in RaInputs, d \in DecInputs}
    /\ res = None
    /\ ImportIdle

CallNew ==
    /\ pc = "start"
    /\ res' = Some(New(arg.ra, arg.dec))
    /\ pc' = "done"
    /\ UNCHANGED <<arg, importVars>>

SpecNew == InitNew /\ [][CallNew]_vars

\* parse_coord on one input string.
InitParse ==
    /\ pc = "start"
    /\ \E t1 \in Tokens1, t2 \in Tokens2, t3 \in Tokens3, t4 \in Tokens4,
          t5 \in Tokens5, t6 \in Tokens6, n \in 0..7 :
          arg = ParseInput(<<t1, t2, t3, t4, t5, t6>>, n)
    /\ res = None
    /\ ImportIdle

CallParseCoord ==
    /\ pc = "start"
    /\ res' = Some(parse_coord(arg))
    /\ pc' = "done"
    /\ UNCHANGED <<arg, importVars>>

SpecParse == InitParse /\ [][CallParseCoord]_vars

\* A stellar position converted to a vector and back.
InitTransform ==
    /\ pc = "start"
    /\ arg \in TransformInputs
    /\ res = [vec |-> None, back |-> None]
    /\ ImportIdle

CallInto ==
    /\ pc = "start"
    /\ res' = [res EXCEPT !.vec = Some(Into(arg))]
    /\ pc' = "vec"
    /\ UNCHANGED <<arg, importVars>>

CallFrom ==
    /\ pc = "vec"
    /\ res' = [res EXCEPT !.back = Some(From(Unwrap(res.vec)))]
    /\ pc' = "done"
    /\ UNCHANGED <<arg, importVars>>

NextTransform == CallInto \/ CallFrom

SpecTransform == InitTransform /\ [][NextTransform]_vars

\* import on one file.
Init ==
    /\ pc = "start"
    /\ \E len \in 0..MaxRecords : \E f \in [1..len -> RowKinds] : rows = File(f, len)
    /\ records = <<>> /\ idx = 0 /\ stars = <<>>
    /\ result = NoResult /\ pos = None /\ coords = None
    /\ PureIdle

\* lib.rs 207, the file read: the rows that deserialize become the records.
ReadRecords ==
    /\ pc = "start"
    /\ records' = import_records(rows)
    /\ idx' = 1
    /\ pc' = "loop"
    /\ UNCHANGED <<rows, stars, result, pos, coords, arg, res>>

\* lib.rs 196 and 207: the file cannot be opened, and `?` returns the error.
ReadFails ==
    /\ pc = "start"
    /\ result' = Err("Io")
    /\ pc' = "done"
    /\ UNCHANGED <<rows, records, idx, stars, pos, coords, arg, res>>

\* lib.rs 209-233: one pass through the loop.  An early return and a panic
\* drop the vector of stars.
LoopBody ==
    /\ pc = "loop"
    /\ idx <= Len(records)
    /\ LET out == ImportRecord(records[idx])
       IN /\ pos' = out.pos
          /\ coords' = out.coords
          /\ idx' = idx + 1
          /\ stars' = CASE out.k = "push" -> Append(stars, Unwrap(out.star))
                        [] out.k = "continue" -> stars
                        [] OTHER -> <<>>
          /\ result' = CASE out.k = "return" -> Err(out.err)
                         [] out.k = "panic" -> Panic
                         [] OTHER -> result
          /\ pc' = IF out.k \in {"return", "panic"} THEN "done" ELSE "loop"
    /\ UNCHANGED <<rows, records, arg, res>>

\* lib.rs 234: Ok(stars).
ReturnOk ==
    /\ pc = "loop"
    /\ idx > Len(records)
    /\ result' = Ok(stars)
    /\ pc' = "done"
    /\ UNCHANGED <<rows, records, idx, stars, pos, coords, arg, res>>

Next == ReadRecords \/ ReadFails \/ LoopBody \/ ReturnOk

Spec == Init /\ [][Next]_vars

(***************************************************************************)
(* The claims.                                                             *)
(***************************************************************************)

\* C1: a stellar position with distance > 0, right ascension in [0, 2 pi) and
\* declination in [-pi/2, pi/2], converted to a vector and back, is the
\* position it was: the same angles, the distance within a thousandth.
RoundTrip ==
    pc = "done" =>
        LET back == Unwrap(res.back)
        IN /\ back.coord = arg.coord
           /\ Abs(back.distance.v - arg.distance.v) * 1000 <= arg.distance.v

\* C2: for every finite ra, negative ones too, the right ascension that
\* EquatorialCoordinate::new returns lies in [0, 2 pi).
RightAscensionInRange ==
    pc = "done" /\ IsSome(res) =>
        LET ra == Unwrap(res).right_ascension
        IN IsFinite(ra) /\ 0 <= ra.v /\ ra.v < TwoPi

\* C3: EquatorialCoordinate::new returns declination pi/2 for a dec above
\* pi/2, -pi/2 for a dec below -pi/2, and dec itself for a dec in between.
DeclinationClamp ==
    pc = "done" /\ IsSome(res) =>
        LET declination == Unwrap(res).declination
        IN /\ arg.dec.v > HalfPi => declination = Fin(HalfPi)
           /\ arg.dec.v < -HalfPi => declination = Fin(-HalfPi)
           /\ -HalfPi <= arg.dec.v /\ arg.dec.v <= HalfPi => declination = arg.dec

\* C3's case: a declination above pi/2 has been clamped.
DeclinationClampWitness ==
    /\ pc = "done" /\ IsSome(res)
    /\ arg.dec.v > HalfPi
    /\ Unwrap(res).declination = Fin(HalfPi)

\* The input has fewer than six tokens, or one of its six numeric tokens (the
\* fourth after its first character) does not parse.
Rejectable(input) ==
    LET ts == SplitWhitespace(input)
    IN \/ Len(ts) < 6
       \/ ParseU8(ts[1]) = None
       \/ ParseU8(ts[2]) = None
       \/ ParseF64(ts[3]) = None
       \/ ParseI16(Tail(ts[4])) = None
       \/ ParseU8(ts[5]) = None
       \/ ParseF64(ts[6]) = None

\* C4: parse_coord returns None, and does not crash, on every input with
\* fewer than six tokens or with a numeric token that does not parse.
ParseRejects ==
    pc = "done" /\ IsSome(res) /\ Rejectable(arg) =>
        Unwrap(res) = Returned(None)

\* The fourth token is D, +D or -D for digits D, and the other five parse.
SignedDegrees(input) ==
    LET ts == SplitWhitespace(input)
    IN /\ Len(ts) >= 6
       /\ ParseU8(ts[1]) # None /\ ParseU8(ts[2]) # None /\ ParseF64(ts[3]) # None
       /\ ParseU8(ts[5]) # None /\ ParseF64(ts[6]) # None
       /\ \/ AllDigits(ts[4])
          \/ Head(ts[4]) \in {"+", "-"} /\ AllDigits(Tail(ts[4]))

\* The declination the fourth to sixth tokens spell, in angle units.
SpelledDeclination(input) ==
    LET ts == SplitWhitespace(input)
        signed == Head(ts[4]) \in {"+", "-"}
        magnitude == DigitsValue(IF signed THEN Tail(ts[4]) ELSE ts[4], 0, 89)
    IN (IF Head(ts[4]) = "-" THEN -1 ELSE 1)
       * (magnitude * UnitsPerDegree + Unwrap(ParseU8(ts[5])) * (UnitsPerDegree \div 60)
          + Unwrap(ParseF64(ts[6])).v)

\* C5: a fourth token -D gives declination -(D + m/60 + s/3600) degrees, and
\* +D or plain D give +(D + m/60 + s/3600) degrees.
SignHandling ==
    pc = "done" /\ IsSome(res) /\ SignedDegrees(arg) =>
        /\ Unwrap(res).k = "returned"
        /\ IsSome(Unwrap(res).value)
        /\ Unwrap(Unwrap(res).value).declination = Fin(SpelledDeclination(arg))

\* The record passes the three filters of import.
Kept(record) ==
    /\ record.plx # None
    /\ record.spec_type # None
    /\ ~EndsWith(record.identifier, <<"B">>)

RECURSIVE Ids(_)
Ids(s) == IF s = <<>> THEN <<>> ELSE <<Head(s).id>> \o Ids(Tail(s))

\* C6: when import returns Ok, its stars are, in the order of the records,
\* one star for each record with a parallax, a spectral type and an
\* identifier not ending in B, with that record's id.
ImportKeepsFilteredOrder ==
    result.k = "Ok" => Ids(result.v) = Ids(SelectSeq(records, Kept))

\* C6's case: import returned Ok having skipped the first record and kept
\* the second.
ImportKeepsFilteredOrderWitness ==
    /\ result.k = "Ok"
    /\ Len(records) = 2
    /\ ~Kept(records[1])
    /\ Ids(result.v) = <<records[2].id>>

\* The record has a parallax and lacks one of its three coordinate columns.
LacksColumn(record) ==
    /\ record.plx # None
    /\ (record.coord1 = None \/ record.coord2 = None \/ record.coord3 = None)

\* C7: import ends with the error CoordNotFound, and no stars, exactly when
\* some record with a parallax lacks one of its three coordinate columns.
CoordNotFoundIff ==
    pc = "done" /\ result # Err("Io") =>
        ((result = Err("CoordNotFound"))
            <=> (\E i \in 1..Len(records) : LacksColumn(records[i])))

\* C8: the distance of the position import builds for a record with a
\* parallax is finite and not negative: 3.26 / (parallax / 1000) if that is
\* finite, else 0.
DistanceNonNegative ==
    IsSome(pos) =>
        LET plx == Unwrap(records[idx - 1].plx)
            distance == Unwrap(pos).distance
        IN /\ IsFinite(distance)
           /\ distance.v >= 0
           /\ distance.v = IF plx.v = 0 THEN 0 ELSE TDiv(326 * 1000, plx.v)

\* C9: the readings import averages are never none: of a record that reaches
\* the averaging, one of the three columns parsed, and the average is a
\* number.
AverageOfSome ==
    IsSome(coords) =>
        /\ Len(Unwrap(coords)) >= 1
        /\ IsFinite(Unwrap(pos).coord.right_ascension)

\* C10: import never returns the error Unspecified.
NeverUnspecified == ~(result.k = "Err" /\ result.v = "Unspecified")

\* C10's case: the loop went past a record without parallax, and import
\* returned the one error it can.
NeverUnspecifiedWitness ==
    /\ result.k = "Err" /\ result.v = "CoordNotFound"
    /\ Len(records) = 2
    /\ records[1].plx = None

====
